---- MODULE Spec2Model ----
(***************************************************************************)
(* Binary Merkle commitment scheme of src/fri/merkle.py: commit, open and  *)
(* verify over a power-of-two-length sequence of data elements.            *)
(*                                                                         *)
(* The three public operations are pure functions.  Each is translated to  *)
(* an operator that returns an outcome record                              *)
(*   [st, msg, val, hashes, calls]                                         *)
(* st     - "ok", or the name of the exception that ended the call         *)
(* msg    - the message of a failed assert                                 *)
(* val    - the returned value when st = "ok"                              *)
(* hashes - number of invocations of the hash primitive H made by the call *)
(* calls  - number of recursive calls (commit_, open_ or verify_ invoked   *)
(*          from commit_, open_ or verify_) started by the call            *)
(*                                                                         *)
(* The hash primitive is modelled as collision-free: H is a free           *)
(* constructor, so H(x) = H(y) iff x = y.  A data element is one byte      *)
(* value; its serialisation is the one-byte string.  The concatenation of  *)
(* two digests (fixed-length byte strings) is the ordered pair.            *)
(***************************************************************************)
EXTENDS Integers, Sequences, FiniteSets, TLC

\* ---- bounds of the model ----
MaxLen == 4          \* longest data_array drawn
MaxByte == 1         \* data elements are the byte values 0..MaxByte
RecursionLimit == 6  \* depth of the interpreter's call stack

Elems == 0..MaxByte
Indices == (0 - 1)..MaxLen

VARIABLES data_array, op, root, index, path, data_element, ret
vars == <<data_array, op, root, index, path, data_element, ret>>

\* ---- the hash primitive and byte strings ----
\* bytes(da): serialisation of a data element
bytes(da) == <<da>>
\* H(m).digest(): collision-free hash
H(m) == [digest |-> m]
\* l + r for two digests
Concat(l, r) == <<l, r>>

\* ---- outcomes ----
Ok(v, h, c) == [st |-> "ok", msg |-> "", val |-> v, hashes |-> h, calls |-> c]
Raise(e, m, h, c) == [st |-> e, msg |-> m, val |-> <<>>, hashes |-> h, calls |-> c]
\* an exception raised by a callee passes through the caller
Propagate(r, h, c) == [st |-> r.st, msg |-> r.msg, val |-> <<>>, hashes |-> h, calls |-> c]

\* ---- integer helpers of the Python expressions ----
RECURSIVE BitAnd(_, _)
\* a & b for a >= 0 and b >= -1 (two's complement: a & -1 = a)
BitAnd(a, b) ==
    IF b = 0 - 1 THEN a
    ELSE IF a = 0 \/ b = 0 THEN 0
    ELSE (a % 2) * (b % 2) + 2 * BitAnd(a \div 2, b \div 2)

RECURSIVE Shl1(_)
\* 1 << n
Shl1(n) == IF n = 0 THEN 1 ELSE 2 * Shl1(n - 1)

\* len(leafs) & (len(leafs)-1) == 0
LengthCheck(leafs) == BitAnd(Len(leafs), Len(leafs) - 1) = 0

\* leafs[:len(leafs)//2] and leafs[len(leafs)//2:]
LeftHalf(leafs) == SubSeq(leafs, 1, Len(leafs) \div 2)
RightHalf(leafs) == SubSeq(leafs, Len(leafs) \div 2 + 1, Len(leafs))

\* [H(bytes(da)).digest() for da in data_array]
HashLeafs(d) == [k \in 1..Len(d) |-> H(bytes(d[k]))]

RECURSIVE commit_(_, _)
RECURSIVE open_(_, _, _)
RECURSIVE verify_(_, _, _, _, _)

\* commit_ with the left half committed twice
commit_LeftTwice(leafs, depth) ==
    IF depth > RecursionLimit THEN Raise("RecursionError", "", 0, 0)
    ELSE IF ~LengthCheck(leafs) THEN Raise("AssertionError", "length must be power of two", 0, 0)
    ELSE IF Len(leafs) = 1 THEN Ok(leafs[1], 0, 0)
    ELSE LET l == commit_(LeftHalf(leafs), depth + 1) IN
         IF l.st # "ok" THEN Propagate(l, l.hashes, l.calls + 1)
         ELSE Ok(H(Concat(l.val, l.val)), 2 * l.hashes + 1, 2 * l.calls + 2)

\* ---- MerkleTree.commit_ ; depth = number of frames below this one ----
commit_(leafs, depth) ==
    IF depth > RecursionLimit THEN Raise("RecursionError", "", 0, 0)
    ELSE IF ~LengthCheck(leafs) THEN Raise("AssertionError", "length must be power of two", 0, 0)
    ELSE IF Len(leafs) = 1 THEN Ok(leafs[1], 0, 0)
    ELSE LET l == commit_(LeftHalf(leafs), depth + 1) IN
         IF l.st # "ok" THEN Propagate(l, l.hashes, l.calls + 1)
         ELSE LET r == commit_(RightHalf(leafs), depth + 1) IN
              IF r.st # "ok" THEN Propagate(r, l.hashes + r.hashes, l.calls + r.calls + 2)
              ELSE Ok(H(Concat(l.val, r.val)), l.hashes + r.hashes + 1, l.calls + r.calls + 2)

\* open_ with the sibling digest put in front of the sub-path
OpenStep_Prepend(sub, idx, other, depth) ==
    LET p == open_(idx, sub, depth + 1) IN
    IF p.st # "ok" THEN Propagate(p, p.hashes, p.calls + 1)
    ELSE LET c == commit_(other, depth + 1) IN
         IF c.st # "ok" THEN Propagate(c, p.hashes + c.hashes, p.calls + c.calls + 2)
         ELSE Ok(<<c.val>> \o p.val, p.hashes + c.hashes, p.calls + c.calls + 2)

\* ---- MerkleTree.open_ ----
\* open_(idx, sub) + [commit_(other)]
OpenStep(sub, idx, other, depth) ==
    LET p == open_(idx, sub, depth + 1) IN
    IF p.st # "ok" THEN Propagate(p, p.hashes, p.calls + 1)
    ELSE LET c == commit_(other, depth + 1) IN
         IF c.st # "ok" THEN Propagate(c, p.hashes + c.hashes, p.calls + c.calls + 2)
         ELSE Ok(p.val \o <<c.val>>, p.hashes + c.hashes, p.calls + c.calls + 2)

open_(idx, leafs, depth) ==
    IF depth > RecursionLimit THEN Raise("RecursionError", "", 0, 0)
    ELSE IF ~LengthCheck(leafs) THEN Raise("AssertionError", "length must be power of two", 0, 0)
    ELSE IF ~(0 <= idx /\ idx < Len(leafs)) THEN Raise("AssertionError", "cannot open invalid index", 0, 0)
    ELSE IF Len(leafs) = 2 THEN Ok(<<leafs[(1 - idx) + 1]>>, 0, 0)
    ELSE IF 2 * idx < Len(leafs)
         THEN OpenStep(LeftHalf(leafs), idx, RightHalf(leafs), depth)
         ELSE OpenStep(RightHalf(leafs), idx - Len(leafs) \div 2, LeftHalf(leafs), depth)

\* the fold with the leaf always on the left
Fold_NoParity(idx, p, leaf) == H(Concat(leaf, p[1]))
\* the fold with the leaf in place of the path entry
Fold_NoSibling(idx, p, leaf) == H(Concat(leaf, leaf))

\* ---- MerkleTree.verify_ ----
\* H(leaf + path[0]) or H(path[0] + leaf), by the parity of the index
Fold(idx, p, leaf) ==
    IF idx % 2 = 0 THEN H(Concat(leaf, p[1])) ELSE H(Concat(p[1], leaf))

\* verify_ with the index bound off by one
verify_OffByOne(r, idx, p, leaf, depth) ==
    IF depth > RecursionLimit THEN Raise("RecursionError", "", 0, 0)
    ELSE IF ~(0 <= idx /\ idx <= Shl1(Len(p))) THEN Raise("AssertionError", "cannot verify invalid index", 0, 0)
    ELSE IF Len(p) = 1
         THEN IF idx = 0 THEN Ok(r = H(Concat(leaf, p[1])), 1, 0)
                         ELSE Ok(r = H(Concat(p[1], leaf)), 1, 0)
    ELSE IF Len(p) = 0 THEN Raise("IndexError", "", 0, 0)
    ELSE LET v == verify_(r, idx \div 2, Tail(p), Fold(idx, p, leaf), depth + 1) IN
         IF v.st # "ok" THEN Propagate(v, v.hashes + 1, v.calls + 1)
         ELSE Ok(v.val, v.hashes + 1, v.calls + 1)

verify_(r, idx, p, leaf, depth) ==
    IF depth > RecursionLimit THEN Raise("RecursionError", "", 0, 0)
    ELSE IF ~(0 <= idx /\ idx < Shl1(Len(p))) THEN Raise("AssertionError", "cannot verify invalid index", 0, 0)
    ELSE IF Len(p) = 1
         THEN IF idx = 0 THEN Ok(r = H(Concat(leaf, p[1])), 1, 0)
                         ELSE Ok(r = H(Concat(p[1], leaf)), 1, 0)
    ELSE IF Len(p) = 0 THEN Raise("IndexError", "", 0, 0)
    ELSE LET v == verify_(r, idx \div 2, Tail(p), Fold(idx, p, leaf), depth + 1) IN
         IF v.st # "ok" THEN Propagate(v, v.hashes + 1, v.calls + 1)
         ELSE Ok(v.val, v.hashes + 1, v.calls + 1)

\* ---- the public operations ----
commit(d) ==
    LET c == commit_(HashLeafs(d), 0) IN
    [c EXCEPT !.hashes = c.hashes + Len(d)]

open(idx, d) ==
    LET p == open_(idx, HashLeafs(d), 0) IN
    [p EXCEPT !.hashes = p.hashes + Len(d)]

verify(r, idx, p, e) ==
    LET v == verify_(r, idx, p, H(bytes(e)), 0) IN
    [v EXCEPT !.hashes = v.hashes + 1]

\* ---- inputs a caller can hand to verify ----
LeafDigests == {H(bytes(e)) : e \in Elems}
NodeDigests == {H(Concat(a, a)) : a \in LeafDigests}
DigestPool == LeafDigests \cup NodeDigests

OpenedPaths(d) ==
    {open(i, d).val : i \in {j \in 0..(Len(d) - 1) : open(j, d).st = "ok"}}
SubstitutedPaths(d) ==
    UNION {{[p EXCEPT ![k] = x] : k \in 1..Len(p), x \in DigestPool} : p \in OpenedPaths(d)}

Paths(d) == {<<>>} \cup OpenedPaths(d) \cup {p \in SubstitutedPaths(d) : Len(p) > 0}
Roots(d) == {H(bytes(0))} \cup (IF commit(d).st = "ok" THEN {commit(d).val} ELSE {})

\* ---- the state machine: a caller draws its inputs and makes one public call ----
NoDigest == H(<<>>)

Init ==
    /\ data_array \in UNION {[1..n -> Elems] : n \in 0..MaxLen}
    /\ op = "none"
    /\ root = NoDigest
    /\ index = 0
    /\ path = <<>>
    /\ data_element = 0
    /\ ret = Ok(FALSE, 0, 0)

Commit ==
    /\ op = "none"
    /\ op' = "commit"
    /\ ret' = commit(data_array)
    /\ root' = NoDigest
    /\ index' = 0
    /\ path' = <<>>
    /\ data_element' = 0
    /\ UNCHANGED data_array

Open ==
    \E i \in Indices :
        /\ op = "none"
        /\ op' = "open"
        /\ index' = i
        /\ ret' = open(i, data_array)
        /\ root' = NoDigest
        /\ path' = <<>>
        /\ data_element' = 0
        /\ UNCHANGED data_array

Verify ==
    \E r \in Roots(data_array), i \in Indices, p \in Paths(data_array), e \in Elems :
        /\ op = "none"
        /\ op' = "verify"
        /\ root' = r
        /\ index' = i
        /\ path' = p
        /\ data_element' = e
        /\ ret' = verify(r, i, p, e)
        /\ UNCHANGED data_array

Next == Commit \/ Open \/ Verify

Spec == Init /\ [][Next]_vars

\* ---- vocabulary of the properties ----
RECURSIVE Pow2(_)
Pow2(k) == IF k = 0 THEN 1 ELSE 2 * Pow2(k - 1)
IsPowerOfTwo(n) == \E k \in 0..n : n = Pow2(k)
Log2(n) == CHOOSE k \in 0..n : n = Pow2(k)
Xor1(s) == IF s % 2 = 0 THEN s + 1 ELSE s - 1
\* block number s at height k of a sequence: seq[s*2^k : (s+1)*2^k]
Block(seq, s, k) == SubSeq(seq, s * Pow2(k) + 1, (s + 1) * Pow2(k))
\* the sequence with the two halves under internal node (k, s) swapped
SwapAt(seq, k, s) ==
    SubSeq(seq, 1, s * Pow2(k))
        \o RightHalf(Block(seq, s, k)) \o LeftHalf(Block(seq, s, k))
        \o SubSeq(seq, (s + 1) * Pow2(k) + 1, Len(seq))
N == Len(data_array)
ValidInput == IsPowerOfTwo(N) /\ 0 <= index /\ index < N
\* the honest proof for position i of data_array
HonestRoot == commit(data_array).val
HonestPath(i) == open(i, data_array).val

\* C1 (as claimed): for every power-of-two-length E and valid i,
\* verify(commit(E), i, open(i, E), E[i]) completes and returns true.
C1_RoundTrip ==
    (op = "open" /\ ValidInput) =>
        /\ ret.st = "ok"
        /\ commit(data_array).st = "ok"
        /\ LET v == verify(HonestRoot, index, ret.val, data_array[index + 1]) IN
           v.st = "ok" /\ v.val = TRUE

\* C2 (as claimed): open(i, leafs) on a power-of-two length n >= 1 and valid i
\* returns a path of exactly log2(n) digests (the empty path for n = 1).
C2_PathLength ==
    (op = "open" /\ ValidInput) =>
        (ret.st = "ok" /\ Len(ret.val) = Log2(N))

\* C3 (as claimed): verify with an empty path and index 0 does not fail and
\* returns true iff H(element) equals the root.
C3_EmptyPathVerify ==
    (op = "verify" /\ path = <<>> /\ index = 0) =>
        (ret.st = "ok" /\ (ret.val <=> (H(bytes(data_element)) = root)))

\* C4 (as claimed): commit and open on a length that is not a strictly positive
\* power of two end in a precondition failure raised by the top-level check,
\* before any recursive call.
C4_LengthRejected ==
    (op \in {"commit", "open"} /\ ~IsPowerOfTwo(N)) =>
        (ret.st = "AssertionError" /\ ret.calls = 0)

\* C5: open with an index outside [0, len) and verify with an index outside
\* [0, 2^len(path)) end in a precondition failure at the top-level call,
\* before any recursive call, and return nothing.
C5_IndexRejected ==
    /\ (op = "open" /\ (index < 0 \/ index >= N)) =>
           (ret.st = "AssertionError" /\ ret.calls = 0)
    /\ (op = "verify" /\ (index < 0 \/ index >= Pow2(Len(path)))) =>
           (ret.st = "AssertionError" /\ ret.calls = 0)
C5_Witness ==
    /\ op = "verify" /\ Len(path) = 2 /\ index = 4
    /\ ret.st = "AssertionError" /\ ret.msg = "cannot verify invalid index"

\* the state is verify(commit(E), index, open(i, E), E[i]) for some i # index
MismatchedCall(i) ==
    /\ op = "verify" /\ IsPowerOfTwo(N) /\ N >= 2
    /\ i \in 0..(N - 1) /\ index \in 0..(N - 1) /\ i # index
    /\ root = HonestRoot
    /\ path = HonestPath(i)
    /\ data_element = data_array[i + 1]
\* the heights at which the bits of i and j differ
DifferingHeights(i, j) ==
    {k \in 0..(Log2(N) - 1) : (i \div Pow2(k)) % 2 # (j \div Pow2(k)) % 2}
\* the block of data_array at height k that holds i equals its sibling block
TwinBlocks(i, k) ==
    Block(data_array, i \div Pow2(k), k) = Block(data_array, Xor1(i \div Pow2(k)), k)

\* C6 (as claimed): verify(commit(E), j, open(i, E), E[i]) with j # i returns false.
C6_MismatchedIndexRejected ==
    \A i \in 0..(N - 1) : MismatchedCall(i) => (ret.st = "ok" /\ ret.val = FALSE)
\* C6 (amended): verify(commit(E), j, open(i, E), E[i]) with j # i returns false
\* unless, at every height where the bits of i and j differ, the block of E
\* holding i equals its sibling block; in that case it returns true.
C6_MismatchedIndex ==
    \A i \in 0..(N - 1) : MismatchedCall(i) =>
        /\ ret.st = "ok"
        /\ ret.val <=> (\A k \in DifferingHeights(i, index) : TwinBlocks(i, k))
C6_Witness ==
    \E i \in 0..(N - 1) :
        /\ MismatchedCall(i) /\ N = 4
        /\ \E k \in DifferingHeights(i, index) : ~TwinBlocks(i, k)
        /\ ret.st = "ok" /\ ret.val = FALSE

\* the state is verify(commit(E), i, p, x) with exactly one of x, p tampered
TamperedCall ==
    /\ op = "verify" /\ ValidInput /\ N >= 2
    /\ root = HonestRoot
    /\ \/ data_element # data_array[index + 1] /\ path = HonestPath(index)
       \/ /\ data_element = data_array[index + 1]
          /\ Len(path) = Len(HonestPath(index))
          /\ Cardinality({k \in 1..Len(path) : path[k] # HonestPath(index)[k]}) = 1

\* C7: with a collision-free hash, verify(commit(E), i, p, x) returns false when
\* x differs from E[i] with the honest path, or when exactly one entry of the
\* honest path is replaced by a different digest with x = E[i].
C7_TamperDetected ==
    TamperedCall => (ret.st = "ok" /\ ret.val = FALSE)
C7_Witness ==
    /\ TamperedCall /\ N = 4
    /\ data_element = data_array[index + 1]
    /\ path[2] # HonestPath(index)[2]
    /\ ret.st = "ok" /\ ret.val = FALSE

\* the internal nodes (height k >= 1, block s) of the tree over data_array
InternalNodes == {ks \in (1..N) \X (0..N) : ks[1] <= Log2(N) /\ ks[2] < N \div Pow2(ks[1])}

\* C8 (as claimed): swapping the two halves under any internal node of a
\* power-of-two-length sequence (n >= 2) yields a different root.
C8_SwapChangesRoot ==
    (op = "commit" /\ IsPowerOfTwo(N) /\ N >= 2) =>
        /\ ret.st = "ok"
        /\ \A ks \in InternalNodes :
               commit(SwapAt(data_array, ks[1], ks[2])).val # ret.val
\* C8 (amended): swapping the two halves under an internal node yields a
\* different root whenever the two halves differ (and the same root otherwise).
C8_OrderSensitive ==
    (op = "commit" /\ IsPowerOfTwo(N) /\ N >= 2) =>
        /\ ret.st = "ok"
        /\ \A ks \in InternalNodes :
               (commit(SwapAt(data_array, ks[1], ks[2])).val # ret.val)
                   <=> (SwapAt(data_array, ks[1], ks[2]) # data_array)
C8_Witness ==
    /\ op = "commit" /\ N = 4 /\ ret.st = "ok"
    /\ SwapAt(data_array, 1, 1) # data_array
    /\ commit(SwapAt(data_array, 1, 1)).val # ret.val

\* C9 (as claimed): when a public call ends in a precondition failure, no hash
\* invocation and no recursive call has happened before it.
C9_NoWorkBeforeFailure ==
    (op # "none" /\ ret.st = "AssertionError") => (ret.hashes = 0 /\ ret.calls = 0)

\* C10: for n = 2^d, d >= 1, entry k of open_(i, L) is commit_ of the sibling
\* block at height k: commit_(L[s*2^k : (s+1)*2^k]) with s = (i >> k) XOR 1.
C10_PathContent ==
    (op = "open" /\ ValidInput /\ N >= 2) =>
        /\ ret.st = "ok"
        /\ Len(ret.val) = Log2(N)
        /\ \A k \in 0..(Log2(N) - 1) :
               ret.val[k + 1] =
                   commit_(Block(HashLeafs(data_array), Xor1(index \div Pow2(k)), k), 0).val
C10_Witness ==
    /\ op = "open" /\ N = 4 /\ index = 2 /\ ret.st = "ok"
    /\ ret.val[1] = H(bytes(data_array[4]))
    /\ ret.val[2] = H(Concat(H(bytes(data_array[1])), H(bytes(data_array[2]))))
    /\ data_array[1] # data_array[4]

====
